---- MODULE Spec2Model ----
(***************************************************************************)
(* A model of bloom_filter/bloomfilter.py: class BloomFilter.               *)
(*                                                                         *)
(* The state is one BloomFilter object (its attributes), the outcome of    *)
(* the last call made on it, and whether the process is still running      *)
(* (every except-branch of the class logs and calls sys.exit(1)).          *)
(***************************************************************************)
EXTENDS Integers, Sequences, FiniteSets, TLC

VARIABLES
    items_count,      \* self.items_count
    probability,      \* self.probability, in thousandths (500 is 0.5)
    case_sensitive,   \* self.case_sensitive
    counter,          \* self.counter
    filter_size,      \* self.filter_size
    hash_count,       \* self.hash_count
    bloom_bitarray,   \* self.bloom_bitarray: a function 0 .. filter_size-1 -> {0, 1}
    mmh3,             \* the external hash primitive mmh3.hash64: text -> <<h1, h2>>
    status,           \* "ok" | "exited" (sys.exit(1)) | "raised" (exception to the caller)
    error,            \* the exception behind status: "none" or its Python class name
    last,             \* history: the last call, its argument and its outcome
    added,            \* history: the items whose add has completed
    calls,            \* history: the number of calls made on the filter
    threads           \* the add call in progress in each thread, if any

vars == <<items_count, probability, case_sensitive, counter, filter_size,
          hash_count, bloom_bitarray, mmh3, status, error, last, added, calls,
          threads>>

----------------------------------------------------------------------------
(* Bounds of the model. *)

\* The number of calls (add, bulk_add, contain) made on one filter.
MaxCalls == 3

\* The length of the sequences handed to bulk_add.
MaxBulkLen == 2

----------------------------------------------------------------------------
(* Items.  A Python str is a sequence of characters; an int is a number.   *)
(* Both are records of the same shape so that they can be compared.        *)

Surrogate == "U+D800"   \* a lone surrogate: a str character UTF-8 cannot encode

StrItem(t) == [kind |-> "str", text |-> t, num |-> 0]
IntItem(n) == [kind |-> "int", text |-> <<>>, num |-> n]

Foo == <<"F", "o", "o">>
foo == <<"f", "o", "o">>
Five == <<"5">>
Bad == <<"x", Surrogate>>

\* The arguments the calls are made with.
Items == {StrItem(Foo), StrItem(foo), IntItem(5), StrItem(Bad)}

\* The elements of the sequences bulk_add is called with.
BulkItems == {StrItem(Foo), IntItem(5), StrItem(Bad)}

\* The sequences bulk_add is called with.
BulkInputs == UNION {[1 .. n -> BulkItems] : n \in 0 .. MaxBulkLen}

\* One decimal digit of str(int).
DigitChar(d) ==
    CASE d = 0 -> "0" [] d = 1 -> "1" [] d = 2 -> "2" [] d = 3 -> "3"
      [] d = 4 -> "4" [] d = 5 -> "5" [] d = 6 -> "6" [] d = 7 -> "7"
      [] d = 8 -> "8" [] OTHER -> "9"

RECURSIVE Decimal(_)
\* The decimal digits of a natural number, as str(int) writes them.
Decimal(n) ==
    IF n < 10 THEN <<DigitChar(n)>>
    ELSE Append(Decimal(n \div 10), DigitChar(n % 10))

\* str(item) at line 80: a str is returned as it is, an int in decimal.
str(item) ==
    IF item.kind = "str" THEN item
    ELSE StrItem(IF item.num < 0 THEN <<"-">> \o Decimal(-item.num)
                 ELSE Decimal(item.num))

\* str.lower() on one character.
LowerChar(c) ==
    CASE c = "F" -> "f" [] c = "O" -> "o" [] c = "X" -> "x" [] OTHER -> c

\* str.lower() at line 165.
lower(t) == [i \in 1 .. Len(t) |-> LowerChar(t[i])]

----------------------------------------------------------------------------
(* The hash primitive.  mmh3.hash64 is an external, deterministic function *)
(* from the UTF-8 encoding of a str to two signed 64-bit integers.  Python *)
(* integers do not overflow, so only the values' residues matter; the      *)
(* model draws the function from a family with negative and zero values    *)
(* and with collisions.                                                    *)

HashA == (Foo :> <<3, 4>>) @@ (foo :> <<-7, 5>>) @@ (Five :> <<12, -3>>)
HashB == (Foo :> <<-1, 0>>) @@ (foo :> <<6, -11>>) @@ (Five :> <<6, -11>>)

HashFamily == {HashA, HashB}

\* mmh3.hash64(key) at line 170: a TypeError for a key that is no str, a
\* UnicodeEncodeError for a str that UTF-8 cannot encode.
hash64(table, key) ==
    IF key.kind # "str" THEN [ok |-> FALSE, exc |-> "TypeError", h1 |-> 0, h2 |-> 0]
    ELSE IF \E i \in 1 .. Len(key.text) : key.text[i] = Surrogate
         THEN [ok |-> FALSE, exc |-> "UnicodeEncodeError", h1 |-> 0, h2 |-> 0]
         ELSE [ok |-> TRUE, exc |-> "none",
               h1 |-> table[key.text][1], h2 |-> table[key.text][2]]

\* get_hash(item, case_sensitive), lines 147-174.  ok = FALSE is the except
\* branch: logger.log and sys.exit(1).
get_hash(table, item, case) ==
    IF case /\ item.kind # "str"
    THEN [ok |-> FALSE, exc |-> "AttributeError", h1 |-> 0, h2 |-> 0]
    ELSE hash64(table, IF case THEN StrItem(lower(item.text)) ELSE item)

----------------------------------------------------------------------------
(* Capacity planning.  The floats of math.log are kept to six decimals:    *)
(* LnMicro(p) is round(10^6 * log(p / 1000)).                               *)

Micro == 1000000

\* log(2) at line 219, in millionths.
Ln2Micro == 693147

\* -log(1 / pow(2, log(2))) at line 194, in millionths: log(2) squared.
LogDenMicro == 480453

\* The values of items the constructor is called with.
ItemCounts == {-1, 0, 1, 10}

\* The values of probability the constructor is called with, in thousandths.
Probabilities == {0, 100, 500, 990, 1000, 1500}

\* math.log(prob) for prob > 0, in millionths.
LnMicro(prob) ==
    CASE prob = 100 -> -2302585
      [] prob = 500 -> -693147
      [] prob = 990 -> -10050
      [] prob = 1000 -> 0
      [] prob = 1500 -> 405465

\* math.ceil(num / den) for den > 0.
ceil(num, den) == -((-num) \div den)

\* The built-in round(num / den) of Python 3: to the nearest integer, a tie
\* to the even one.
round(num, den) ==
    LET n == IF den < 0 THEN -num ELSE num
        d == IF den < 0 THEN -den ELSE den
        q == (2 * n + d) \div (2 * d)
    IN  IF (2 * n + d) % (2 * d) = 0 /\ q % 2 = 1 THEN q - 1 ELSE q

\* get_filter_size(items, prob), lines 177-199.  math.log raises ValueError
\* for prob <= 0; the except branch logs and calls sys.exit(1).
get_filter_size(items, prob) ==
    IF prob <= 0 THEN [ok |-> FALSE, exc |-> "ValueError", size |-> 0]
    ELSE [ok |-> TRUE, exc |-> "none",
          size |-> ceil(-(items * LnMicro(prob)), LogDenMicro)]

\* get_hash_count(items, size), lines 202-224.  size / items raises
\* ZeroDivisionError for items = 0; the except branch logs and exits.
get_hash_count(items, size) ==
    IF items = 0 THEN [ok |-> FALSE, exc |-> "ZeroDivisionError", count |-> 0]
    ELSE [ok |-> TRUE, exc |-> "none",
          count |-> round(size * Ln2Micro, items * Micro)]

\* bitarray(size) followed by setall(0), lines 67-68.  bitarray raises
\* ValueError for a negative length, outside every try of the class.
new_bitarray(size) == [i \in 0 .. size - 1 |-> 0]

\* __init__(items, probability, case), lines 44-68: the attributes of the
\* object, and how the constructor ended.  An attribute the constructor did
\* not reach is 0 (the empty array for bloom_bitarray).
init(items, prob, case) ==
    LET fs == get_filter_size(items, prob)
        hc == get_hash_count(items, fs.size)
        base == [items_count |-> items, probability |-> prob,
                 case_sensitive |-> case, counter |-> 0,
                 filter_size |-> 0, hash_count |-> 0,
                 bloom_bitarray |-> new_bitarray(0),
                 status |-> "ok", error |-> "none"]
    IN  IF ~fs.ok THEN [base EXCEPT !.status = "exited", !.error = fs.exc]
        ELSE IF ~hc.ok
        THEN [base EXCEPT !.filter_size = fs.size,
                          !.status = "exited", !.error = hc.exc]
        ELSE IF fs.size < 0
        THEN [base EXCEPT !.filter_size = fs.size, !.hash_count = hc.count,
                          !.status = "raised", !.error = "ValueError"]
        ELSE [base EXCEPT !.filter_size = fs.size, !.hash_count = hc.count,
                          !.bloom_bitarray = new_bitarray(fs.size)]

NoCall == [op |-> "init", arg |-> <<>>, ok |-> TRUE, result |-> FALSE, probes |-> 0]

\* The threads that call add concurrently.
Threads == {1, 2}

\* A thread that has not called add: the locals of add are unset.
IdleThread == [pc |-> "idle", item |-> StrItem(<<>>), current_hash |-> 0,
               hash_val2 |-> 0, i |-> 0, loaded |-> 0]

Init ==
    \E n \in ItemCounts, p \in Probabilities, c \in BOOLEAN, t \in HashFamily :
        LET o == init(n, p, c)
        IN  /\ items_count = o.items_count
            /\ probability = o.probability
            /\ case_sensitive = o.case_sensitive
            /\ counter = o.counter
            /\ filter_size = o.filter_size
            /\ hash_count = o.hash_count
            /\ bloom_bitarray = o.bloom_bitarray
            /\ status = o.status
            /\ error = o.error
            /\ mmh3 = t
            /\ last = NoCall
            /\ added = {}
            /\ calls = 0
            /\ threads = [th \in Threads |-> IdleThread]

----------------------------------------------------------------------------
(* The operations.  Each is a function of the mutable part of the object,  *)
(* [bits, counter, status, error, added], and of its argument.             *)

\* The mutable part of the object in the current state.
Self == [bits |-> bloom_bitarray, counter |-> counter, status |-> status,
         error |-> error, added |-> added]

\* The % of C on integers: the remainder of the division truncated towards
\* zero, negative for a negative a.
c_rem(a, b) == IF a >= 0 THEN a % b ELSE -((-a) % b)

\* The % of Python on integers, lines 88 and 137: a - b * floor(a / b).
py_mod(a, b) == a - b * (a \div b)

RECURSIVE add_loop_skips_last(_, _, _, _, _, _)
\* add_loop with range(self.hash_count - 1): the last round is not written.
add_loop_skips_last(bits, size, count, current_hash, hash_val2, i) ==
    IF i >= count - 1 THEN [ok |-> TRUE, bits |-> bits]
    ELSE IF size = 0 THEN [ok |-> FALSE, bits |-> bits]
    ELSE add_loop_skips_last([bits EXCEPT ![current_hash % size] = 1], size,
                             count, current_hash + hash_val2, hash_val2, i + 1)

RECURSIVE add_loop_toggles(_, _, _, _, _, _)
\* add_loop with bloom_bitarray[position] ^= 1: a set bit is cleared.
add_loop_toggles(bits, size, count, current_hash, hash_val2, i) ==
    IF i >= count THEN [ok |-> TRUE, bits |-> bits]
    ELSE IF size = 0 THEN [ok |-> FALSE, bits |-> bits]
    ELSE add_loop_toggles([bits EXCEPT ![current_hash % size] = 1 - @], size,
                          count, current_hash + hash_val2, hash_val2, i + 1)

RECURSIVE add_loop_extra_round(_, _, _, _, _, _)
\* add_loop with range(self.hash_count + 1): one position too many.
add_loop_extra_round(bits, size, count, current_hash, hash_val2, i) ==
    IF i >= count + 1 THEN [ok |-> TRUE, bits |-> bits]
    ELSE IF size = 0 THEN [ok |-> FALSE, bits |-> bits]
    ELSE add_loop_extra_round([bits EXCEPT ![current_hash % size] = 1], size,
                              count, current_hash + hash_val2, hash_val2, i + 1)

RECURSIVE add_loop_appends(_, _, _, _, _, _)
\* add_loop with bloom_bitarray.append(1) for the indexed assignment: the
\* array grows by one bit per round.
add_loop_appends(bits, size, count, current_hash, hash_val2, i) ==
    IF i >= count THEN [ok |-> TRUE, bits |-> bits]
    ELSE IF size = 0 THEN [ok |-> FALSE, bits |-> bits]
    ELSE add_loop_appends(bits @@ (Cardinality(DOMAIN bits) :> 1), size,
                          count, current_hash + hash_val2, hash_val2, i + 1)

RECURSIVE add_loop_overwrites(_, _, _, _, _, _)
\* add_loop after a setall(0): the array is cleared before the first round.
add_loop_overwrites(bits, size, count, current_hash, hash_val2, i) ==
    IF i >= count THEN [ok |-> TRUE, bits |-> bits]
    ELSE IF size = 0 THEN [ok |-> FALSE, bits |-> bits]
    ELSE add_loop_overwrites(
             [(IF i = 0 THEN [p \in DOMAIN bits |-> 0] ELSE bits)
                  EXCEPT ![current_hash % size] = 1],
             size, count, current_hash + hash_val2, hash_val2, i + 1)

RECURSIVE add_loop(_, _, _, _, _, _)
\* The loop of add, lines 86-90, from round i on: position = current_hash %
\* filter_size; bloom_bitarray[position] = 1; current_hash += hash_val2.
\* ok = FALSE is the ZeroDivisionError of % on an empty array.
add_loop(bits, size, count, current_hash, hash_val2, i) ==
    IF i >= count THEN [ok |-> TRUE, bits |-> bits]
    ELSE IF size = 0 THEN [ok |-> FALSE, bits |-> bits]
    ELSE add_loop([bits EXCEPT ![py_mod(current_hash, size)] = 1], size, count,
                  current_hash + hash_val2, hash_val2, i + 1)

\* add with self.counter += 1 indented into the for loop of line 87: one
\* increment per round.
add_counts_rounds(f, item) ==
    LET h == get_hash(mmh3, str(item), case_sensitive)
        r == add_loop(f.bits, filter_size, hash_count, h.h1, h.h2, 0)
    IN  IF ~h.ok THEN [f EXCEPT !.status = "exited", !.error = h.exc]
        ELSE IF ~r.ok
        THEN [f EXCEPT !.bits = r.bits, !.status = "exited",
                       !.error = "ZeroDivisionError"]
        ELSE [f EXCEPT !.bits = r.bits,
                       !.counter = @ + Cardinality(0 .. hash_count - 1),
                       !.added = @ \cup {item}]

\* add(item), lines 70-95.
add(f, item) ==
    LET h == get_hash(mmh3, str(item), case_sensitive)
        r == add_loop(f.bits, filter_size, hash_count, h.h1, h.h2, 0)
    IN  IF ~h.ok THEN [f EXCEPT !.status = "exited", !.error = h.exc]
        ELSE IF ~r.ok
        THEN [f EXCEPT !.bits = r.bits, !.status = "exited",
                       !.error = "ZeroDivisionError"]
        ELSE [f EXCEPT !.bits = r.bits, !.counter = @ + 1,
                       !.added = @ \cup {item}]

RECURSIVE bulk_add_loop_distinct(_, _, _)
\* bulk_add_loop over set(items): an element seen before is not added again.
bulk_add_loop_distinct(f, items, j) ==
    IF j > Len(items) THEN f
    ELSE IF \E k \in 1 .. j - 1 : items[k] = items[j]
    THEN bulk_add_loop_distinct(f, items, j + 1)
    ELSE LET g == add(f, items[j])
         IN  IF g.status # "ok" THEN g
             ELSE bulk_add_loop_distinct(g, items, j + 1)

RECURSIVE bulk_add_loop(_, _, _)
\* The loop of bulk_add, lines 109-110, from element j on.  The SystemExit
\* of a failed add is no Exception: it passes the except of line 111.
bulk_add_loop(f, items, j) ==
    IF j > Len(items) THEN f
    ELSE LET g == add(f, items[j])
         IN  IF g.status # "ok" THEN g ELSE bulk_add_loop(g, items, j + 1)

\* bulk_add(items), lines 97-113.
bulk_add(f, items) == bulk_add_loop(f, items, 1)

RECURSIVE contain_loop_no_advance(_, _, _, _, _, _)
\* contain_loop without current_hash += hash_val2: every round reads the
\* first position.
contain_loop_no_advance(bits, size, count, current_hash, hash_val2, i) ==
    IF i >= count THEN [ok |-> TRUE, result |-> TRUE, probes |-> i]
    ELSE IF size = 0 THEN [ok |-> FALSE, result |-> FALSE, probes |-> i]
    ELSE IF bits[current_hash % size] = 0
    THEN [ok |-> TRUE, result |-> FALSE, probes |-> i + 1]
    ELSE contain_loop_no_advance(bits, size, count, current_hash,
                                 hash_val2, i + 1)

RECURSIVE contain_loop(_, _, _, _, _, _)
\* The loop of contain, lines 135-141, from round i on.  probes counts the
\* bits read.
contain_loop(bits, size, count, current_hash, hash_val2, i) ==
    IF i >= count THEN [ok |-> TRUE, result |-> TRUE, probes |-> i]
    ELSE IF size = 0 THEN [ok |-> FALSE, result |-> FALSE, probes |-> i]
    ELSE IF bits[py_mod(current_hash, size)] = 0
    THEN [ok |-> TRUE, result |-> FALSE, probes |-> i + 1]
    ELSE contain_loop(bits, size, count, current_hash + hash_val2,
                      hash_val2, i + 1)

\* contain(item), lines 115-144: exc = "none" and the result, or the
\* exception that ended in sys.exit(1).
contain(f, item) ==
    LET h == get_hash(mmh3, item, case_sensitive)
        r == contain_loop(f.bits, filter_size, hash_count, h.h1, h.h2, 0)
    IN  IF ~h.ok THEN [exc |-> h.exc, result |-> FALSE, probes |-> 0]
        ELSE IF ~r.ok
        THEN [exc |-> "ZeroDivisionError", result |-> FALSE, probes |-> r.probes]
        ELSE [exc |-> "none", result |-> r.result, probes |-> r.probes]

----------------------------------------------------------------------------
(* The actions: one call on the filter of a running process.               *)

Frozen == <<items_count, probability, case_sensitive, filter_size,
            hash_count, mmh3>>

Store(g) ==
    /\ bloom_bitarray' = g.bits
    /\ counter' = g.counter
    /\ status' = g.status
    /\ error' = g.error
    /\ added' = g.added

Add(item) ==
    /\ status = "ok"
    /\ calls < MaxCalls
    /\ LET g == add(Self, item)
       IN  /\ Store(g)
           /\ last' = [op |-> "add", arg |-> <<item>>, ok |-> g.status = "ok",
                       result |-> FALSE, probes |-> 0]
    /\ calls' = calls + 1
    /\ UNCHANGED Frozen
    /\ UNCHANGED threads

BulkAdd(items) ==
    /\ status = "ok"
    /\ calls < MaxCalls
    /\ LET g == bulk_add(Self, items)
       IN  /\ Store(g)
           /\ last' = [op |-> "bulk_add", arg |-> items, ok |-> g.status = "ok",
                       result |-> FALSE, probes |-> 0]
    /\ calls' = calls + 1
    /\ UNCHANGED Frozen
    /\ UNCHANGED threads

\* Contain with self.counter += 1 before its return: a query counted as an
\* insertion.
ContainCounts(item) ==
    /\ status = "ok"
    /\ calls < MaxCalls
    /\ LET c == contain(Self, item)
       IN  /\ status' = IF c.exc = "none" THEN "ok" ELSE "exited"
           /\ error' = c.exc
           /\ counter' = IF c.exc = "none" THEN counter + 1 ELSE counter
           /\ last' = [op |-> "contain", arg |-> <<item>>, ok |-> c.exc = "none",
                       result |-> c.result, probes |-> c.probes]
    /\ calls' = calls + 1
    /\ UNCHANGED <<bloom_bitarray, added>>
    /\ UNCHANGED Frozen
    /\ UNCHANGED threads

Contain(item) ==
    /\ status = "ok"
    /\ calls < MaxCalls
    /\ LET c == contain(Self, item)
       IN  /\ status' = IF c.exc = "none" THEN "ok" ELSE "exited"
           /\ error' = c.exc
           /\ last' = [op |-> "contain", arg |-> <<item>>, ok |-> c.exc = "none",
                       result |-> c.result, probes |-> c.probes]
    /\ calls' = calls + 1
    /\ UNCHANGED <<bloom_bitarray, counter, added>>
    /\ UNCHANGED Frozen
    /\ UNCHANGED threads

Next ==
    \/ \E item \in Items : Add(item)
    \/ \E items \in BulkInputs : BulkAdd(items)
    \/ \E item \in Items : Contain(item)

Spec == Init /\ [][Next]_vars

----------------------------------------------------------------------------
(* Two threads that each call add once on a fresh filter, with no lock.    *)
(* A step is one access to the shared object: the write of one bit (the    *)
(* C call behind line 89 runs under the interpreter lock), the load of     *)
(* self.counter and the store of self.counter (line 91 is a load, an add   *)
(* and a store, and the threads can switch between them).  The locals      *)
(* current_hash and i belong to the thread.                                *)

\* The items the threads insert: those add accepts.
ConcItems == {StrItem(Foo), StrItem(foo), IntItem(5)}

\* Line 80: the thread enters add and computes the hash pair of str(item).
T_Call(t, item) ==
    /\ status = "ok"
    /\ threads[t].pc = "idle"
    /\ LET h == get_hash(mmh3, str(item), case_sensitive)
       IN  /\ h.ok
           /\ threads' = [threads EXCEPT ![t] =
                  [pc |-> "loop", item |-> item, current_hash |-> h.h1,
                   hash_val2 |-> h.h2, i |-> 0, loaded |-> 0]]
    /\ UNCHANGED <<bloom_bitarray, counter, status, error, last, added, calls>>
    /\ UNCHANGED Frozen

\* T_SetBit without current_hash += hash_val2.
T_SetBit_no_advance(t) ==
    /\ threads[t].pc = "loop"
    /\ threads[t].i < hash_count
    /\ bloom_bitarray' = [bloom_bitarray EXCEPT
           ![py_mod(threads[t].current_hash, filter_size)] = 1]
    /\ threads' = [threads EXCEPT ![t].i = @ + 1]
    /\ UNCHANGED <<counter, status, error, last, added, calls>>
    /\ UNCHANGED Frozen

\* Lines 88-90: one round of the loop, the write of one bit.
T_SetBit(t) ==
    /\ threads[t].pc = "loop"
    /\ threads[t].i < hash_count
    /\ bloom_bitarray' = [bloom_bitarray EXCEPT
           ![py_mod(threads[t].current_hash, filter_size)] = 1]
    /\ threads' = [threads EXCEPT
           ![t].current_hash = @ + threads[t].hash_val2, ![t].i = @ + 1]
    /\ UNCHANGED <<counter, status, error, last, added, calls>>
    /\ UNCHANGED Frozen

\* Line 91, first half: after the loop, the load of self.counter.
T_LoadCounter(t) ==
    /\ threads[t].pc = "loop"
    /\ threads[t].i >= hash_count
    /\ threads' = [threads EXCEPT ![t].pc = "store", ![t].loaded = counter]
    /\ UNCHANGED <<bloom_bitarray, counter, status, error, last, added, calls>>
    /\ UNCHANGED Frozen

\* Line 91, second half: the store of the loaded value plus 1; add returns.
T_StoreCounter(t) ==
    /\ threads[t].pc = "store"
    /\ counter' = threads[t].loaded + 1
    /\ added' = added \cup {threads[t].item}
    /\ threads' = [threads EXCEPT ![t].pc = "done"]
    /\ UNCHANGED <<bloom_bitarray, status, error, last, calls>>
    /\ UNCHANGED Frozen

ConcNext ==
    \E t \in Threads :
        \/ \E item \in ConcItems : T_Call(t, item)
        \/ T_SetBit(t)
        \/ T_LoadCounter(t)
        \/ T_StoreCounter(t)

SpecConc == Init /\ [][ConcNext]_vars

----------------------------------------------------------------------------
(* Vocabulary of the properties, stated in closed form: nothing below uses *)
(* the loops of add, bulk_add or contain.                                  *)

\* The constructor's arguments are in their domain: items >= 1, 0 < p < 1.
ValidParams == items_count >= 1 /\ probability > 0 /\ probability < 1000

\* The hash pair of a str item in this filter.
HashPair(x) == get_hash(mmh3, x, case_sensitive)

\* The i-th position of a hash pair: (h1 + i*h2) mod filter_size.
Position(h, i) == (h.h1 + i * h.h2) % filter_size

\* The positions of a hash pair, one per round.
Positions(h) == {Position(h, i) : i \in 0 .. hash_count - 1}

\* Every position of the hash pair holds 1 in the array b.
AllSet(b, h) == \A i \in 0 .. hash_count - 1 : b[Position(h, i)] = 1

\* The positions of the array b that hold 1.
Ones(b) == {p \in DOMAIN b : b[p] = 1}

\* The step is a call of op (every call counts in calls).
IsCall(op) == calls' = calls + 1 /\ last'.op = op

\* C1: once add(x) has completed for a str x, contain(x) returns True, in
\* every later state of a filter built with valid parameters: both for the
\* contain call the program makes and for the one it could make.
NoFalseNegatives ==
    ValidParams =>
        /\ \A x \in added :
              x.kind = "str" =>
                  LET c == contain(Self, x)
                  IN  c.exc = "none" /\ c.result = TRUE
        /\ (last.op = "contain" /\ last.arg[1] \in added
                /\ last.arg[1].kind = "str") => (last.ok /\ last.result = TRUE)

\* contain(x) returned True for an inserted str x after a second insertion,
\* in a filter with at least one hash round and a bit still 0.
NoFalseNegativesWitness ==
    /\ ValidParams
    /\ hash_count >= 1
    /\ last.op = "contain"
    /\ last.arg[1] \in added
    /\ last.arg[1].kind = "str"
    /\ last.result = TRUE
    /\ counter >= 2
    /\ \E p \in DOMAIN bloom_bitarray : bloom_bitarray[p] = 0

\* C2: no step turns a bit that is 1 back to 0, and no step changes the
\* set of positions of the array.
BitsMonotone ==
    [][/\ DOMAIN bloom_bitarray' = DOMAIN bloom_bitarray
       /\ \A p \in DOMAIN bloom_bitarray :
              bloom_bitarray[p] = 1 => bloom_bitarray'[p] = 1]_vars

\* An item was inserted a second time, over bits that were already 1.
BitsMonotoneWitness ==
    /\ status = "ok"
    /\ hash_count >= 1
    /\ counter >= 2
    /\ Cardinality(added) = 1
    /\ \E p \in DOMAIN bloom_bitarray : bloom_bitarray[p] = 1

\* C3: a contain call that returned, returned True exactly when every
\* position (h1 + i*h2) mod filter_size, i in 0 .. hash_count-1, holds 1;
\* it read one bit per round to return True, and to return False it read up to
\* the first position holding 0 and no further.
ContainIsAllBitsSet ==
    /\ (last.op = "contain" /\ last.ok) =>
           LET h == HashPair(last.arg[1])
               zeros == {i \in 0 .. hash_count - 1 :
                            bloom_bitarray[Position(h, i)] = 0}
           IN  /\ last.result = AllSet(bloom_bitarray, h)
               /\ last.result => last.probes = Cardinality(0 .. hash_count - 1)
               /\ ~last.result =>
                      /\ last.probes - 1 \in zeros
                      /\ \A i \in zeros : i >= last.probes - 1
    /\ \A x \in Items :
           (status = "ok" /\ HashPair(x).ok) =>
               contain(Self, x).result = AllSet(bloom_bitarray, HashPair(x))

\* contain returned False at its second probe of three or more: the first
\* position held 1, the second 0.
ContainIsAllBitsSetWitness ==
    /\ last.op = "contain"
    /\ last.ok
    /\ last.result = FALSE
    /\ last.probes = 2
    /\ hash_count >= 3

\* C4: an add(x) that completes sets the bits at the positions of the hash
\* pair of str(x), leaves every other bit as it was (the positions holding 1
\* afterwards are those that held 1 before and those of x, in an array of
\* the same length), and adds 1 to counter.
AddSetsExactlyItsBits ==
    [][(IsCall("add") /\ last'.ok) =>
           /\ DOMAIN bloom_bitarray' = DOMAIN bloom_bitarray
           /\ Ones(bloom_bitarray') = Ones(bloom_bitarray) \cup
                  Positions(HashPair(str(last'.arg[1])))
           /\ counter' = counter + 1]_vars

\* An add completed on a filter with several rounds and left a bit at 0,
\* after an earlier insertion.
AddSetsExactlyItsBitsWitness ==
    /\ last.op = "add"
    /\ last.ok
    /\ hash_count >= 2
    /\ counter >= 2
    /\ Cardinality(Positions(HashPair(str(last.arg[1])))) >= 2
    /\ \E p \in DOMAIN bloom_bitarray : bloom_bitarray[p] = 0

\* Two texts differ at most in the case of their letters.
DiffersOnlyInCase(s, t) ==
    /\ Len(s) = Len(t)
    /\ \A i \in 1 .. Len(s) : LowerChar(s[i]) = LowerChar(t[i])

\* C5: in a filter built with case = False, after add(s) for a str s,
\* contain(t) returns True for every str t that differs from s only in
\* letter case.
CaseFoldingWhenFlagDisabled ==
    (case_sensitive = FALSE /\ last.op = "contain"
        /\ last.arg[1].kind = "str"
        /\ \E s \in added :
               s.kind = "str" /\ DiffersOnlyInCase(s.text, last.arg[1].text))
    => (last.ok /\ last.result = TRUE)

\* C6: every construction with items >= 1 and 0 < probability < 1 yields a
\* filter with filter_size >= 1 and hash_count >= 1.
ValidParamsGiveRounds ==
    ValidParams => (status = "ok" /\ filter_size >= 1 /\ hash_count >= 1)

\* The constructor's arguments are out of their domain.
OutOfDomain == items_count <= 0 \/ probability <= 0 \/ probability >= 1000

\* C7: a construction with items <= 0, probability <= 0 or probability >= 1
\* is rejected with an InvalidParameter error raised to the caller; no
\* filter object comes out of it.
OutOfDomainIsRejected ==
    OutOfDomain => (status = "raised" /\ error = "InvalidParameter")

\* The hash primitive cannot process the argument of the call the step makes.
HashFailsIn(op, x) ==
    \/ op = "add" /\ ~HashPair(str(x)).ok
    \/ op = "contain" /\ ~HashPair(x).ok

\* C8: when the hash primitive cannot process the input of add or contain,
\* a HashingFailure is raised to the caller, the process keeps running, and
\* bloom_bitarray and counter are as before the call.
HashFailureIsRecoverable ==
    [][((IsCall("add") \/ IsCall("contain"))
            /\ HashFailsIn(last'.op, last'.arg[1]))
       => /\ status' # "exited"
          /\ error' = "HashingFailure"
          /\ bloom_bitarray' = bloom_bitarray
          /\ counter' = counter]_vars

\* C9: for every item x that add accepted, an int included, contain(x)
\* hashes str(x) as add did and returns True.
ContainCoercesLikeAdd ==
    (last.op = "contain" /\ last.arg[1] \in added)
    => (last.ok /\ last.result = TRUE)

\* The least element of a non-empty set of integers.
Least(S) == CHOOSE m \in S : \A k \in S : m <= k

\* The number of leading elements of a sequence that add accepts: all of
\* them, or those before the first one the hash primitive cannot process.
Accepted(items) ==
    LET bad == {j \in 1 .. Len(items) : ~HashPair(str(items[j])).ok}
    IN  IF bad = {} THEN Len(items) ELSE Least(bad) - 1

\* C10: bulk_add(items) leaves what one add per element, in order, leaves:
\* the bits of every accepted element are 1, every other bit is as it was,
\* and counter has grown by the number of accepted elements (the length of
\* the sequence, duplicates included, when the call completes); the call
\* completes exactly when every element is accepted.
BulkAddIsRepeatedAdd ==
    [][IsCall("bulk_add") =>
           LET items == last'.arg
               n == Accepted(items)
           IN  /\ DOMAIN bloom_bitarray' = DOMAIN bloom_bitarray
               /\ Ones(bloom_bitarray') = Ones(bloom_bitarray) \cup
                      UNION {Positions(HashPair(str(items[j]))) : j \in 1 .. n}
               /\ counter' = counter + n
               /\ last'.ok = (n = Len(items))
               /\ last'.ok => counter' = counter + Len(items)]_vars

\* A bulk_add of the same element twice completed after an earlier
\* insertion, on a filter with at least one round.
BulkAddIsRepeatedAddWitness ==
    /\ last.op = "bulk_add"
    /\ last.ok
    /\ Len(last.arg) = 2
    /\ last.arg[1] = last.arg[2]
    /\ hash_count >= 1
    /\ Cardinality(added) = 2
    /\ counter = 3

\* C11: an add(x) that completes for an x already inserted leaves
\* bloom_bitarray, and with it the result of contain for every item, as the
\* earlier add(x) left them; counter alone changes, and is higher by 1.
AddIsIdempotent ==
    [][(IsCall("add") /\ last'.ok /\ last'.arg[1] \in added) =>
           /\ bloom_bitarray' = bloom_bitarray
           /\ counter' = counter + 1
           /\ \A y \in Items :
                  contain([Self EXCEPT !.bits = bloom_bitarray'], y)
                      = contain(Self, y)]_vars

\* The same item was inserted by two calls in a row, the second an add, on a
\* filter with several rounds.
AddIsIdempotentWitness ==
    /\ last.op = "add"
    /\ last.ok
    /\ calls = 2
    /\ counter = 2
    /\ added = {last.arg[1]}
    /\ Cardinality(Positions(HashPair(str(last.arg[1])))) >= 2

\* The constructor returned a filter object.
Constructed == init(items_count, probability, case_sensitive).status = "ok"

\* C13: counter is the number of add calls that have completed, those made
\* by bulk_add included: it is 0 before the first call, a completed add
\* raises it by 1, a failed add and a contain leave it, a bulk_add raises it
\* by the number of elements it added; and no result of contain depends on
\* its value.
CounterCountsAdds ==
    /\ [](calls = 0 => counter = 0)
    /\ [][/\ IsCall("add") =>
                 counter' = counter + (IF HashPair(str(last'.arg[1])).ok
                                       THEN 1 ELSE 0)
          /\ IsCall("bulk_add") => counter' = counter + Accepted(last'.arg)
          /\ IsCall("contain") => counter' = counter]_vars
    /\ [](Constructed =>
              \A x \in Items, k \in 0 .. MaxCalls :
                  contain([Self EXCEPT !.counter = k], x) = contain(Self, x))

\* An add, a bulk_add of two elements and a contain have been made on a
\* filter with several rounds, and counter is 3.
CounterCountsAddsWitness ==
    /\ calls = 3
    /\ counter = 3
    /\ last.op = "contain"
    /\ last.ok
    /\ hash_count >= 2

\* Hash values of both signs, small and large, for the position arithmetic.
HashValues == {-1000003, -7, -1, 0, 3, 1000003}

\* C14: for every hash pair, negative values included, and every filter
\* with filter_size >= 1, the positions add writes are exactly the values
\* (h1 + i*h2) mod filter_size, i in 0 .. hash_count-1, each in
\* 0 .. filter_size-1, the array keeps its length, and contain reads none
\* but these positions (a fact of filter_size and hash_count alone, checked
\* once per filter); so it is for the add calls the program makes.
PositionsAreInRange ==
    (Constructed /\ filter_size >= 1) =>
        /\ calls = 0 =>
           \A h1 \in HashValues, h2 \in HashValues :
               LET math == {(h1 + i * h2) % filter_size : i \in 0 .. hash_count - 1}
                   w == add_loop(new_bitarray(filter_size), filter_size,
                                 hash_count, h1, h2, 0)
                   r == contain_loop(w.bits, filter_size, hash_count, h1, h2, 0)
               IN  /\ w.ok
                   /\ DOMAIN w.bits = 0 .. filter_size - 1
                   /\ Ones(w.bits) = math
                   /\ math \subseteq 0 .. filter_size - 1
                   /\ r.ok /\ r.result = TRUE
        /\ (last.op = "add" /\ last.ok) =>
               /\ Positions(HashPair(str(last.arg[1]))) \subseteq Ones(bloom_bitarray)
               /\ Ones(bloom_bitarray) \subseteq 0 .. filter_size - 1

\* An add completed for an item whose first hash value is negative, on a
\* filter of several positions and several rounds.
PositionsAreInRangeWitness ==
    /\ last.op = "add"
    /\ last.ok
    /\ HashPair(str(last.arg[1])).h1 < 0
    /\ HashPair(str(last.arg[1])).h2 > 0
    /\ filter_size >= 5
    /\ hash_count >= 3

\* C15: a contain call, whatever it returns, leaves bloom_bitarray, counter,
\* filter_size, hash_count and case_sensitive as they were; a step that
\* changes one of them is an add or a bulk_add.
ContainIsReadOnly ==
    [][/\ IsCall("contain") =>
              UNCHANGED <<bloom_bitarray, counter, filter_size, hash_count,
                          case_sensitive>>
       /\ (<<bloom_bitarray, counter, filter_size, hash_count, case_sensitive>>'
               # <<bloom_bitarray, counter, filter_size, hash_count,
                    case_sensitive>>)
              => (IsCall("add") \/ IsCall("bulk_add"))]_vars

\* A contain call returned True on a filter holding an item, with a bit at 1
\* and a bit at 0.
ContainIsReadOnlyWitness ==
    /\ last.op = "contain"
    /\ last.ok
    /\ last.result = TRUE
    /\ counter = 1
    /\ hash_count >= 1
    /\ \E p \in DOMAIN bloom_bitarray : bloom_bitarray[p] = 1
    /\ \E p \in DOMAIN bloom_bitarray : bloom_bitarray[p] = 0

\* C16: in a filter built with valid parameters and no add made yet, every
\* bit of bloom_bitarray is 0, counter is 0 and a contain call returns False;
\* a contain call returns True only after an add has completed.
FreshFilterIsEmpty ==
    ValidParams =>
        /\ calls = 0 =>
               /\ counter = 0
               /\ \A p \in DOMAIN bloom_bitarray : bloom_bitarray[p] = 0
        /\ (last.op = "contain" /\ last.ok /\ last.result = TRUE) => counter >= 1

\* C17: in every state of a constructed filter, filter_size and hash_count
\* are the values the constructor derived from items_count and probability,
\* and bloom_bitarray has filter_size positions; no step changes
\* filter_size, hash_count, items_count, probability or case_sensitive, nor
\* the length of the array.
FixedCapacity ==
    /\ [](Constructed =>
              /\ filter_size = get_filter_size(items_count, probability).size
              /\ hash_count = get_hash_count(items_count, filter_size).count
              /\ DOMAIN bloom_bitarray = 0 .. filter_size - 1)
    /\ [][/\ UNCHANGED <<filter_size, hash_count, items_count, probability,
                         case_sensitive>>
          /\ DOMAIN bloom_bitarray' = DOMAIN bloom_bitarray]_vars

\* Three calls, two of them insertions of different items, have been made on
\* a filter of five positions or more.
FixedCapacityWitness ==
    /\ status = "ok"
    /\ calls = 3
    /\ Cardinality(added) >= 2
    /\ filter_size >= 5
    /\ Cardinality(Ones(bloom_bitarray)) >= 2

\* C18: the bits that are 1 are those at the positions of the items
\* inserted so far, in whatever order they came; and from every state of a
\* running filter, add(x) then add(y) leaves the same bloom_bitarray and the
\* same counter as add(y) then add(x), for all items x and y that add accepts.
InsertionOrderIrrelevant ==
    Constructed =>
        /\ Ones(bloom_bitarray) =
               UNION {Positions(HashPair(str(x))) : x \in added}
        /\ status = "ok" =>
               \A x \in Items, y \in Items :
                   LET xy == add(add(Self, x), y)
                       yx == add(add(Self, y), x)
                   IN  (xy.status = "ok" /\ yx.status = "ok") =>
                           (xy.bits = yx.bits /\ xy.counter = yx.counter)

\* Two adds have inserted two items whose positions differ, on a filter with
\* several rounds.
InsertionOrderIrrelevantWitness ==
    /\ status = "ok"
    /\ last.op = "add"
    /\ calls = 2
    /\ counter = 2
    /\ hash_count >= 2
    /\ \E x \in added, y \in added :
           /\ Positions(HashPair(str(x))) \ Positions(HashPair(str(y))) # {}
           /\ Positions(HashPair(str(y))) \ Positions(HashPair(str(x))) # {}

\* Both threads have returned from add.
BothDone == \A t \in Threads : threads[t].pc = "done"

\* The object after add(x) then add(y) on the fresh filter, one after the
\* other.
Sequential(x, y) ==
    add(add([bits |-> new_bitarray(filter_size), counter |-> 0,
             status |-> "ok", error |-> "none", added |-> {}], x), y)

\* C19, as claimed, for a filter built with valid parameters: when two add
\* calls of different threads have both completed, however their bit writes
\* and their loads and stores of counter interleaved, bloom_bitarray is what
\* the two adds leave one after the other and counter has been incremented
\* once per insertion.
ConcurrentAddsKeepCounter ==
    (ValidParams /\ BothDone) =>
        LET seq == Sequential(threads[1].item, threads[2].item)
        IN  bloom_bitarray = seq.bits /\ counter = seq.counter

\* C19, amended: when both add calls have completed, bloom_bitarray is what
\* the two adds leave one after the other; counter has been incremented at
\* least once and at most once per insertion (it is 1 or 2).
ConcurrentAddsKeepBits ==
    BothDone =>
        LET seq == Sequential(threads[1].item, threads[2].item)
        IN  /\ bloom_bitarray = seq.bits
            /\ counter >= 1
            /\ counter <= seq.counter

\* Both threads have inserted different items on a filter with several
\* rounds and one increment of counter was lost.
ConcurrentAddsKeepBitsWitness ==
    /\ BothDone
    /\ threads[1].item # threads[2].item
    /\ hash_count >= 2
    /\ Cardinality(Ones(bloom_bitarray)) >= 3
    /\ counter = 1

====
